---- MODULE Spec2Model ----
(***************************************************************************)
(* A model of the fixed-point emulation library fixedpointlib.cpp: the FXP *)
(* value type, its bounds calculator (_set_bounds), its quantizer          *)
(* (_set_val, _to_signed, _to_unsigned), and the operators built on them.  *)
(*                                                                         *)
(* The library computes in `double` and `int64_t`.  Both are modelled      *)
(* exactly.  A finite number is a sign and a magnitude, the magnitude      *)
(* being the set of the positions of its binary digits that are 1          *)
(* (position i weighs 2^i, negative positions are fractional digits), so   *)
(* that 2^60 - 1 and 2^-30 are ordinary values.  A double is such a number *)
(* rounded to MantBits significant digits, or an infinity, or NaN.         *)
(***************************************************************************)
EXTENDS Integers, FiniteSets, Sequences, TLC

\* ------------------------------------------------------------------------
\* Magnitudes: finite sets of binary digit positions
\* ------------------------------------------------------------------------

\* significant binary digits of a double (IEEE-754 binary64)
MantBits == 53

\* value bits of an int64_t (the 64th is the sign)
Int64Bits == 63

MaxBit(S) == CHOOSE i \in S : \A j \in S : j <= i

MagShift(A, k) == { i + k : i \in A }

\* A < B
MagLess(A, B) ==
    LET D == (A \ B) \cup (B \ A)
    IN  D # {} /\ MaxBit(D) \in B

MinBit(S) == CHOOSE i \in S : \A j \in S : i <= j

\* A + B, digit by digit: a carry enters position i when some lower position
\* generates one and every position between passes it on
MagAdd(A, B) ==
    LET U        == A \cup B
        Carry(i) == \E j \in A \cap B :
                        j < i /\ \A k \in (j + 1)..(i - 1) : k \in U
    IN  IF U = {} THEN {}
        ELSE { i \in MinBit(U)..(MaxBit(U) + 1) :
                 ((i \in A) # (i \in B)) # Carry(i) }

\* A - B, for A >= B, digit by digit: a borrow enters position i when some
\* lower position takes one and every position between passes it on
MagSub(A, B) ==
    LET U         == A \cup B
        Borrow(i) == \E j \in B \ A :
                         j < i /\ \A k \in (j + 1)..(i - 1) : k \in B \/ k \notin A
    IN  IF U = {} THEN {}
        ELSE { i \in MinBit(U)..MaxBit(U) :
                 ((i \in A) # (i \in B)) # Borrow(i) }

\* A * B: the sum of the shifted copies of one factor, one per digit of the
\* factor with fewer digits
RECURSIVE MagMulBy(_, _)
MagMulBy(A, B) ==
    IF A = {} \/ B = {} THEN {}
    ELSE LET i == MaxBit(A)
         IN  MagAdd(MagShift(B, i), MagMulBy(A \ {i}, B))

MagMul(A, B) ==
    IF Cardinality(A) <= Cardinality(B) THEN MagMulBy(A, B) ELSE MagMulBy(B, A)

\* the digits of a small natural number
NatBits(n) == { i \in 0..30 : (n \div (2^i)) % 2 = 1 }

\* ------------------------------------------------------------------------
\* Numbers: finite (sign, magnitude), infinities, NaN
\* ------------------------------------------------------------------------

Fin(neg, m) == [k |-> "fin", neg |-> (neg /\ m # {}), m |-> m]

Zero == Fin(FALSE, {})

NaN == [k |-> "nan", neg |-> FALSE, m |-> {}]

\* double inf = INFINITY
inf == [k |-> "inf", neg |-> FALSE, m |-> {}]

IsFin(x) == x.k = "fin"

IsZero(x) == x.k = "fin" /\ x.m = {}

\* unary minus on a double (or an exact number)
Neg(x) == IF x.k = "nan" THEN x ELSE [x EXCEPT !.neg = (~x.neg /\ ~IsZero(x))]

FromInt(n) == IF n < 0 THEN Fin(TRUE, NatBits(-n)) ELSE Fin(FALSE, NatBits(n))

\* n / 2^d
Dyadic(n, d) == LET x == FromInt(n) IN Fin(x.neg, MagShift(x.m, -d))

\* exact sum of two finite numbers
ExactAdd(x, y) ==
    IF x.neg = y.neg THEN Fin(x.neg, MagAdd(x.m, y.m))
    ELSE IF MagLess(x.m, y.m) THEN Fin(y.neg, MagSub(y.m, x.m))
    ELSE Fin(x.neg, MagSub(x.m, y.m))

ExactMul(x, y) == Fin(x.neg # y.neg, MagMul(x.m, y.m))

\* x < y on doubles (false when either is NaN)
Less(x, y) ==
    IF x.k = "nan" \/ y.k = "nan" THEN FALSE
    ELSE IF x.k = "inf" THEN x.neg /\ ~(y.k = "inf" /\ y.neg)
    ELSE IF y.k = "inf" THEN ~y.neg
    ELSE IF x.neg /\ ~y.neg THEN TRUE
    ELSE IF ~x.neg /\ y.neg THEN FALSE
    ELSE IF x.neg THEN MagLess(y.m, x.m)
    ELSE MagLess(x.m, y.m)

\* x <= y on doubles
Leq(x, y) == x.k # "nan" /\ y.k # "nan" /\ ~Less(y, x)

\* x == y on doubles
NumEq(x, y) == x.k # "nan" /\ y.k # "nan" /\ x = y

\* round-to-nearest-even to MantBits significant digits: the rounding of every
\* double operation and of the conversion int64_t -> double
RN(x) ==
    IF x.k # "fin" \/ x.m = {} THEN x
    ELSE LET cut  == MaxBit(x.m) - (MantBits - 1)
             kept == { i \in x.m : i >= cut }
             up   == (cut - 1) \in x.m
                     /\ ((\E i \in x.m : i < cut - 1) \/ cut \in x.m)
         IN  Fin(x.neg, IF up THEN MagAdd(kept, {cut}) ELSE kept)

\* double + double
dAdd(x, y) ==
    IF x.k = "nan" \/ y.k = "nan" THEN NaN
    ELSE IF x.k = "inf" THEN (IF y.k = "inf" /\ y.neg # x.neg THEN NaN ELSE x)
    ELSE IF y.k = "inf" THEN y
    ELSE RN(ExactAdd(x, y))

\* double - double
dSub(x, y) == dAdd(x, Neg(y))

\* double * double
dMul(x, y) ==
    IF x.k = "nan" \/ y.k = "nan" THEN NaN
    ELSE IF x.k = "inf" \/ y.k = "inf"
         THEN (IF IsZero(x) \/ IsZero(y) THEN NaN
               ELSE [k |-> "inf", neg |-> (x.neg # y.neg), m |-> {}])
    ELSE RN(ExactMul(x, y))

\* double / double where the divisor is a positive power of two (every
\* division of the library divides by a double made from 1 << n)
dDivPow2(x, p) ==
    IF x.k # "fin" THEN x
    ELSE Fin(x.neg, MagShift(x.m, -MaxBit(p.m)))

\* (double) of an int64_t
ToDouble(n) == RN(n)

\* does the finite number fit an int64_t
FitsInt64(x) ==
    /\ x.k = "fin"
    /\ \A i \in x.m : i >= 0
    /\ \/ \A i \in x.m : i < Int64Bits
       \/ x.neg /\ x.m = {Int64Bits}

\* (int64_t) of a double: truncation toward zero (defined only when the
\* truncated value fits)
Trunc(x) == Fin(x.neg, { i \in x.m : i >= 0 })

CastOk(x) == x.k = "fin" /\ FitsInt64(Trunc(x))

\* ((int64_t)1) << n, defined for 0 <= n < Int64Bits
Shl1(n) == Fin(FALSE, {n})

Shl1Ok(n) == n >= 0 /\ n < Int64Bits

\* x % full on int64_t, full a positive power of two: the remainder has the
\* sign of the dividend
Rem(x, full) == Fin(x.neg, { i \in x.m : i < MaxBit(full.m) })

\* #define fastfloor(x) ((double)(int64_t)x - (x < (double)(int64_t)x))
fastfloor(x) ==
    LET t == ToDouble(Trunc(x))
    IN  dSub(t, IF Less(x, t) THEN FromInt(1) ELSE Zero)

\* round() of <cmath>: to the nearest integer, halfway cases away from zero
round(x) ==
    IF x.k # "fin" THEN x
    ELSE Fin(x.neg, { i \in MagAdd(x.m, {-1}) : i >= 0 })

\* #define fastmax(a,b) ((a)>(b)?(a):(b))
fastmax(x, y) == IF x > y THEN x ELSE y

\* #define fastmin(a,b) ((a)<(b)?(a):(b))
fastmin(x, y) == IF x < y THEN x ELSE y

\* ------------------------------------------------------------------------
\* The FXP class
\* ------------------------------------------------------------------------

\* enum dtype {d_INT, d_UINT, d_FXP, d_UFXP, d_FLOAT}
dtype == {"d_INT", "d_UINT", "d_FXP", "d_UFXP", "d_FLOAT"}

\* enum modes {FULL, FIXEDFRAC, FIXEDWIDTH, MANUAL}
modes == {"FULL", "FIXEDFRAC", "FIXEDWIDTH", "MANUAL"}

\* class tuple: the configuration handed to a constructor
tuple(intg, frac, type, opmode, sat, rounding) ==
    [intg |-> intg, frac |-> frac, type |-> type, opmode |-> opmode,
     sat |-> sat, rounding |-> rounding]

\* FXP::_read_template: the configuration fields of a tuple or of another FXP
_read_template(templ) ==
    tuple(templ.intg, templ.frac, templ.type, templ.opmode, templ.sat,
          templ.rounding)

\* the outcome of an operation whose assert failed: the program has aborted
Aborted == [st |-> "abort"]

\* the outcome of an operation that ran into undefined behaviour of int64_t
\* (a shift by 63 or more, a cast or a sum out of range)
Undefined == [st |-> "ub"]

\* the combined width from which _set_bounds approximates the bounds
BoundsSwitch == 31

\* the precision ceiling asserted by _set_val
WidthCeiling == 63

IsUnsigned(type) == type = "d_UINT" \/ type = "d_UFXP"

\* FXP::_set_bounds: shift, full, half, pinf, ninf of a configuration; ub
\* tells that one of its shifts is undefined
_set_bounds(c) ==
    LET w     == c.intg + c.frac
        uns   == IsUnsigned(c.type)
        fullw == IF uns THEN w ELSE w + 1
        exact == (c.intg < BoundsSwitch) /\ (c.frac < BoundsSwitch)
        ok    == /\ Shl1Ok(c.frac)
                 /\ Shl1Ok(fullw)
                 /\ (c.type = "d_FLOAT" \/ exact \/ Shl1Ok(c.intg))
        shift == ToDouble(Shl1(c.frac))
    IN  IF ~ok THEN [ub |-> TRUE]
        ELSE [ub    |-> FALSE,
              shift |-> shift,
              full  |-> Shl1(fullw),
              half  |-> IF uns THEN Zero ELSE Shl1(w),
              pinf  |-> IF c.type = "d_FLOAT" THEN inf
                        ELSE IF exact
                        THEN dDivPow2(ToDouble(ExactAdd(Shl1(w), FromInt(-1))), shift)
                        ELSE ToDouble(ExactAdd(Shl1(c.intg), FromInt(-1))),
              ninf  |-> IF c.type = "d_FLOAT" THEN Neg(inf)
                        ELSE IF uns THEN Zero
                        ELSE IF exact
                        THEN dDivPow2(Neg(ToDouble(Shl1(w))), shift)
                        ELSE Neg(ToDouble(Shl1(c.intg)))]

\* the first three lines of _to_signed and of _to_unsigned: scale, then round
\* or floor
Scaled(val, bnd, rounding) ==
    LET temp == dMul(val, bnd.shift)
    IN  IF rounding THEN round(temp) ELSE fastfloor(temp)

\* the casts of Scaled and of the modulo line are defined
ScaledOk(val, bnd, rounding) ==
    LET temp == dMul(val, bnd.shift)
    IN  CastOk(temp) /\ CastOk(Scaled(val, bnd, rounding))

\* `if (tempint < 0) tempint += full`
SignFix(rem, full) == IF rem.neg THEN ExactAdd(rem, full) ELSE rem

\* _to_signed without the sign-correcting `tempint += full`
_to_signed_nofix(val, bnd, rounding) ==
    LET temp == Scaled(val, bnd, rounding)
        rem  == Rem(ExactAdd(Trunc(temp), bnd.half), bnd.full)
    IN  [st |-> "ok", v |-> ToDouble(ExactAdd(rem, Neg(bnd.half)))]

\* the lines of _to_signed after the scaling: the modulo of temp + half, the
\* sign correction, and the return value
_to_signed_wrap(sum, bnd) ==
    IF ~FitsInt64(sum) THEN Undefined
    ELSE [st |-> "ok",
          v  |-> ToDouble(ExactAdd(SignFix(Rem(sum, bnd.full), bnd.full),
                                   Neg(bnd.half)))]

\* FXP::_to_signed: the stored value of a signed kind
_to_signed(val, bnd, rounding) ==
    IF ~ScaledOk(val, bnd, rounding) THEN Undefined
    ELSE _to_signed_wrap(ExactAdd(Trunc(Scaled(val, bnd, rounding)), bnd.half),
                         bnd)

\* FXP::_to_unsigned: the stored value of an unsigned kind
_to_unsigned(val, bnd, rounding) ==
    IF ~ScaledOk(val, bnd, rounding) THEN Undefined
    ELSE [st |-> "ok",
          v  |-> ToDouble(SignFix(Rem(Trunc(Scaled(val, bnd, rounding)),
                                      bnd.full), bnd.full))]

\* the value of val after the inf substitution and the saturation of _set_val
Clamp(val, bnd, sat) ==
    LET v1 == IF val = inf THEN bnd.pinf ELSE val
        v2 == IF v1 = Neg(inf) THEN bnd.ninf ELSE v1
        v3 == IF sat /\ Less(bnd.pinf, v2) THEN bnd.pinf ELSE v2
    IN  IF sat /\ Less(v3, bnd.ninf) THEN bnd.ninf ELSE v3

\* an FXP object: its configuration and its stored value
Obj(c, v) ==
    [st |-> "ok", _val |-> v, intg |-> c.intg, frac |-> c.frac,
     type |-> c.type, opmode |-> c.opmode, sat |-> c.sat,
     rounding |-> c.rounding]

\* the closing assert of _set_val: tempval * _val >= 0
SignKept(tempval, v) == Leq(Zero, dMul(tempval, v))

\* the last lines of _set_val: the quantized value q becomes _val when the
\* closing assert holds
Stored(tempval, c, q) ==
    IF q.st # "ok" THEN q
    ELSE IF SignKept(tempval, q.v) THEN Obj(c, q.v) ELSE Aborted

\* the call of _to_signed or of _to_unsigned made by _set_val
Quantized(val, c, bnd) ==
    IF c.type \in {"d_INT", "d_FXP"}
    THEN _to_signed(val, bnd, c.rounding)
    ELSE _to_unsigned(val, bnd, c.rounding)

\* _set_val_from without assert((this->frac == 0)) for d_INT and d_UINT
_set_val_from_anyfrac(tempval, val, c, bnd) ==
    IF ~(c.intg + c.frac < WidthCeiling) THEN Aborted
    ELSE IF c.type = "d_FLOAT"
    THEN (IF SignKept(tempval, val) THEN Obj(c, val) ELSE Aborted)
    ELSE IF IsUnsigned(c.type) /\ ~Leq(Zero, val) THEN Aborted
    ELSE Stored(tempval, c, Quantized(val, c, bnd))

\* the switch of _set_val and the asserts before it, val being the value
\* after the inf substitution and the saturation
_set_val_from(tempval, val, c, bnd) ==
    IF ~(c.intg + c.frac < WidthCeiling) THEN Aborted
    ELSE IF c.type = "d_FLOAT"
    THEN (IF SignKept(tempval, val) THEN Obj(c, val) ELSE Aborted)
    ELSE IF c.type \in {"d_INT", "d_UINT"} /\ c.frac # 0 THEN Aborted
    ELSE IF IsUnsigned(c.type) /\ ~Leq(Zero, val) THEN Aborted
    ELSE Stored(tempval, c, Quantized(val, c, bnd))

\* FXP::_set_val, after _set_bounds: the object, or Aborted when an assert
\* fails
_set_val(tempval, c, bnd) ==
    _set_val_from(tempval, Clamp(tempval, bnd, c.sat), c, bnd)

\* a constructor call after an undefined step (a shift or a cast that yields
\* some value): the asserts of _set_val on the tuple alone still abort
UndefinedInto(c) ==
    IF ~(c.intg + c.frac < WidthCeiling) THEN Aborted
    ELSE IF c.type \in {"d_INT", "d_UINT"} /\ c.frac # 0 THEN Aborted
    ELSE Undefined

\* FXP::FXP(double val, TYPE templ)
FXP(val, templ) ==
    LET c   == _read_template(templ)
        bnd == _set_bounds(c)
    IN  IF bnd.ub THEN UndefinedInto(c) ELSE _set_val(val, c, bnd)

\* val() returning the stored value without dividing by shift
val_raw(a) == a._val

\* FXP::val: the real value of an object
val(a) ==
    IF a.type = "d_FLOAT" THEN a._val
    ELSE dDivPow2(a._val, _set_bounds(_read_template(a)).shift)

\* FXP::copy()
copy(a) == FXP(val(a), a)

\* FXP operator-(FXP a)
negate(a) == FXP(Neg(val(a)), a)

\* FXP abs(FXP a): fabs of the real value, requantized
Fabs(x) == IF x.k = "nan" THEN x ELSE [x EXCEPT !.neg = FALSE]

abs(a) == FXP(Fabs(val(a)), a)

\* ------------------------------------------------------------------------
\* Binary operators
\* ------------------------------------------------------------------------

IsIntKind(type) == type = "d_UINT" \/ type = "d_INT"

IsFixKind(type) == type = "d_UFXP" \/ type = "d_FXP"

BothFloat(a, b) == (a.type = "d_FLOAT") /\ (b.type = "d_FLOAT")

\* the result kind chosen by _add and by _mul
AddType(a, b) ==
    IF BothFloat(a, b) THEN "d_FLOAT"
    ELSE IF (a.type = "d_UINT") /\ (b.type = "d_UINT") THEN "d_UINT"
    ELSE IF ((a.type = "d_UINT") /\ (b.type = "d_INT"))
            \/ ((a.type = "d_INT") /\ (b.type = "d_UINT")) THEN "d_INT"
    ELSE IF ((a.type = "d_UINT") /\ (b.type = "d_UFXP"))
            \/ ((a.type = "d_UFXP") /\ (b.type = "d_UINT")) THEN "d_UFXP"
    ELSE "d_FXP"

\* _sub promoting like _add (two unsigned integers stay unsigned)
SubType_asAdd(a, b) == AddType(a, b)

\* the result kind chosen by _sub
SubType(a, b) ==
    IF BothFloat(a, b) THEN "d_FLOAT"
    ELSE IF (a.type = "d_UINT") /\ (b.type = "d_UINT") THEN "d_INT"
    ELSE IF ((a.type = "d_UINT") /\ (b.type = "d_INT"))
            \/ ((a.type = "d_INT") /\ (b.type = "d_UINT")) THEN "d_INT"
    ELSE IF ((a.type = "d_UINT") /\ (b.type = "d_UFXP"))
            \/ ((a.type = "d_UFXP") /\ (b.type = "d_UINT")) THEN "d_FXP"
    ELSE "d_FXP"

\* the fractional width taken from the first operand instead of the minimum
FixedFracWidth_first(a, b) ==
    IF IsIntKind(a.type) /\ IsFixKind(b.type) THEN b.frac
    ELSE a.frac

\* the fractional width of FIXEDFRAC and FIXEDWIDTH results
FixedFracWidth(a, b) ==
    IF IsIntKind(a.type) /\ IsFixKind(b.type) THEN b.frac
    ELSE IF IsIntKind(b.type) /\ IsFixKind(a.type) THEN a.frac
    ELSE fastmin(a.frac, b.frac)

\* the widths inferred by _add and by _sub: <<intg, frac>>
AddWidths(a, b, opmode) ==
    IF opmode = "FULL"
    THEN <<fastmax(a.intg, b.intg) + 1, fastmax(a.frac, b.frac)>>
    ELSE IF opmode = "FIXEDFRAC"
    THEN <<fastmax(a.intg, b.intg) + 1, FixedFracWidth(a, b)>>
    ELSE IF opmode = "FIXEDWIDTH"
    THEN <<fastmax(a.intg, b.intg), FixedFracWidth(a, b)>>
    ELSE <<0, 0>>

\* _mul growing the integer width in FIXEDWIDTH as it does in FIXEDFRAC
MulWidths_grow(a, b, opmode) ==
    IF opmode = "FULL"
    THEN <<a.intg + b.intg, a.frac + b.frac>>
    ELSE IF opmode \in {"FIXEDFRAC", "FIXEDWIDTH"}
    THEN <<a.intg + b.intg, FixedFracWidth(a, b)>>
    ELSE <<0, 0>>

\* the widths inferred by _mul: <<intg, frac>>
MulWidths(a, b, opmode) ==
    IF opmode = "FULL"
    THEN <<a.intg + b.intg, a.frac + b.frac>>
    ELSE IF opmode = "FIXEDFRAC"
    THEN <<a.intg + b.intg, FixedFracWidth(a, b)>>
    ELSE IF opmode = "FIXEDWIDTH"
    THEN <<fastmax(a.intg, b.intg), FixedFracWidth(a, b)>>
    ELSE <<0, 0>>

\* double(((int64_t)x._val) << d): the stored value of the operand with the
\* smaller fraction, aligned.  A negative value is shifted as the compiler
\* shifts it (multiplied by 2^d).
Aligned(x, d) == ToDouble(Fin(x._val.neg, MagShift(Trunc(x._val).m, d)))

AlignedOk(x, d) ==
    /\ CastOk(x._val)
    /\ d >= 0 /\ d <= Int64Bits
    /\ FitsInt64(Fin(x._val.neg, MagShift(Trunc(x._val).m, d)))

ShiftOf(x) == _set_bounds(_read_template(x)).shift

\* tempval of _add
AddVal(a, b) ==
    IF BothFloat(a, b) THEN dAdd(a._val, b._val)
    ELSE IF a.frac >= b.frac
    THEN dDivPow2(dAdd(a._val, Aligned(b, a.frac - b.frac)), ShiftOf(a))
    ELSE dDivPow2(dAdd(b._val, Aligned(a, b.frac - a.frac)), ShiftOf(b))

\* tempval of _sub with the minus sign of its second branch lost
SubVal_signslip(a, b) ==
    IF BothFloat(a, b) THEN dSub(a._val, b._val)
    ELSE IF a.frac >= b.frac
    THEN dDivPow2(dSub(a._val, Aligned(b, a.frac - b.frac)), ShiftOf(a))
    ELSE dDivPow2(dAdd(b._val, Aligned(a, b.frac - a.frac)), ShiftOf(b))

\* tempval of _sub
SubVal(a, b) ==
    IF BothFloat(a, b) THEN dSub(a._val, b._val)
    ELSE IF a.frac >= b.frac
    THEN dDivPow2(dSub(a._val, Aligned(b, a.frac - b.frac)), ShiftOf(a))
    ELSE dDivPow2(dAdd(Neg(b._val), Aligned(a, b.frac - a.frac)), ShiftOf(b))

\* tempval of _mul
MulVal(a, b) ==
    IF BothFloat(a, b) THEN dMul(a._val, b._val)
    ELSE dDivPow2(dMul(a._val, b._val), ToDouble(Shl1(a.frac + b.frac)))

\* the int64_t steps of tempval are defined
AlignOk(a, b) ==
    BothFloat(a, b)
    \/ (IF a.frac >= b.frac THEN AlignedOk(b, a.frac - b.frac)
        ELSE AlignedOk(a, b.frac - a.frac))

\* the arguments _add hands to the constructor: the real value and the tuple
AddArgs(a, b, opmode, sat, rounding) ==
    LET w == AddWidths(a, b, opmode)
    IN  [v |-> AddVal(a, b),
         c |-> tuple(w[1], w[2], AddType(a, b), opmode, sat, rounding)]

SubArgs(a, b, opmode, sat, rounding) ==
    LET w == AddWidths(a, b, opmode)
    IN  [v |-> SubVal(a, b),
         c |-> tuple(w[1], w[2], SubType(a, b), opmode, sat, rounding)]

MulArgs(a, b, opmode, sat, rounding) ==
    LET w == MulWidths(a, b, opmode)
    IN  [v |-> MulVal(a, b),
         c |-> tuple(w[1], w[2], AddType(a, b), opmode, sat, rounding)]

\* FXP _add(FXP a, FXP b, modes opmode, bool sat, bool rounding)
_add(a, b, opmode, sat, rounding) ==
    LET x == AddArgs(a, b, opmode, sat, rounding)
    IN  IF AlignOk(a, b) THEN FXP(x.v, x.c) ELSE UndefinedInto(x.c)

\* FXP _sub(FXP a, FXP b, modes opmode, bool sat, bool rounding)
_sub(a, b, opmode, sat, rounding) ==
    LET x == SubArgs(a, b, opmode, sat, rounding)
    IN  IF AlignOk(a, b) THEN FXP(x.v, x.c) ELSE UndefinedInto(x.c)

\* FXP _mul(FXP a, FXP b, modes opmode, bool sat, bool rounding)
_mul(a, b, opmode, sat, rounding) ==
    LET x == MulArgs(a, b, opmode, sat, rounding)
    IN  IF BothFloat(a, b) \/ Shl1Ok(a.frac + b.frac)
        THEN FXP(x.v, x.c) ELSE UndefinedInto(x.c)

\* the asserts without the one on sat
Compatible_nosat(a, b) ==
    /\ a.opmode = b.opmode
    /\ a.rounding = b.rounding
    /\ (BothFloat(a, b) \/ ((a.type # "d_FLOAT") /\ (b.type # "d_FLOAT")))

\* the asserts of the two-operand _add, _sub and _mul
Compatible(a, b) ==
    /\ a.opmode = b.opmode
    /\ a.sat = b.sat
    /\ a.rounding = b.rounding
    /\ (BothFloat(a, b) \/ ((a.type # "d_FLOAT") /\ (b.type # "d_FLOAT")))

\* FXP _add(FXP a, FXP b), which is operator+(FXP a, FXP b)
_add2(a, b) ==
    IF Compatible(a, b) THEN _add(a, b, a.opmode, a.sat, a.rounding) ELSE Aborted

\* FXP _sub(FXP a, FXP b), which is operator-(FXP a, FXP b)
_sub2(a, b) ==
    IF Compatible(a, b) THEN _sub(a, b, a.opmode, a.sat, a.rounding) ELSE Aborted

\* FXP _mul(FXP a, FXP b), which is operator*(FXP a, FXP b)
_mul2(a, b) ==
    IF Compatible(a, b) THEN _mul(a, b, a.opmode, a.sat, a.rounding) ELSE Aborted

\* bool operator==(FXP a, FXP b)
Equals(a, b) == NumEq(val(a), val(b))

\* bool operator>(FXP a, FXP b)
Greater(a, b) == Less(val(b), val(a))

\* FXP max(FXP a, FXP b)
max(a, b) == IF Greater(a, b) THEN copy(a) ELSE copy(b)

\* FXP min(FXP a, FXP b)
min(a, b) == IF Less(val(a), val(b)) THEN copy(a) ELSE copy(b)

\* void convert(TYPE templ), and the object it leaves
convert(a, templ) == FXP(val(a), templ)

\* ------------------------------------------------------------------------
\* Shifts and scalar operators
\* ------------------------------------------------------------------------

\* the width of int without its sign: 1 << b is defined for 0 <= b < IntBits
IntBits == 31

IntShlOk(k) == k >= 0 /\ k < IntBits

\* the arguments operator>> hands to the constructor
ShrArgs(a, k) ==
    [v |-> dDivPow2(val(a), Shl1(k)),
     c |-> tuple(fastmin(a.intg - k, 0), a.frac + k, a.type, a.opmode,
                 a.sat, a.rounding)]

\* the arguments operator<< hands to the constructor
ShlArgs(a, k) ==
    [v |-> dMul(val(a), ToDouble(Shl1(k))),
     c |-> tuple(a.intg + k, fastmax(a.frac - k, 0), a.type, a.opmode,
                 a.sat, a.rounding)]

\* FXP operator>>(FXP a, int b)
operator_shr(a, k) ==
    LET x == ShrArgs(a, k)
    IN  IF IntShlOk(k) THEN FXP(x.v, x.c) ELSE UndefinedInto(x.c)

\* FXP operator<<(FXP a, int b)
operator_shl(a, k) ==
    LET x == ShlArgs(a, k)
    IN  IF IntShlOk(k) THEN FXP(x.v, x.c) ELSE UndefinedInto(x.c)

\* int(fastfloor(log2(n))) of a positive int
FloorLog2(n) == MaxBit(NatBits(n))

\* (b & (b-1)) == 0 of a positive int
IsPow2(n) == Cardinality(NatBits(n)) = 1

Magnitude(k) == IF k < 0 THEN -k ELSE k

\* the kind operator+ and operator- give the literal
AddLitType(a, k) ==
    IF a.type = "d_FLOAT" THEN "d_FLOAT"
    ELSE IF k > 0 THEN "d_UINT" ELSE "d_INT"

\* the kind operator* gives the literal
MulLitType(a, k) ==
    IF a.type = "d_FLOAT" THEN "d_FLOAT"
    ELSE IF k > 0 THEN "d_UINT" ELSE "d_FLOAT"

\* FXP(b, tuple(1+int(fastfloor(log2(|b|))), 0, type, a.opmode, a.sat,
\* a.rounding))
Literal(a, k, type) ==
    FXP(FromInt(k),
        tuple(1 + FloorLog2(Magnitude(k)), 0, type, a.opmode, a.sat,
              a.rounding))

\* FXP operator+(FXP a, int b)
operator_add_int(a, k) ==
    IF k = 0 THEN copy(a)
    ELSE LET lit == Literal(a, k, AddLitType(a, k))
         IN  IF lit.st # "ok" THEN lit ELSE _add2(a, lit)

\* FXP operator-(FXP a, int b)
operator_sub_int(a, k) ==
    IF k = 0 THEN copy(a)
    ELSE LET lit == Literal(a, k, AddLitType(a, k))
         IN  IF lit.st # "ok" THEN lit ELSE _sub2(a, lit)

\* FXP operator-(int a, FXP b): -b + a
operator_int_sub(k, a) ==
    LET n == negate(a)
    IN  IF n.st # "ok" THEN n ELSE operator_add_int(n, k)

\* FXP operator*(FXP a, int b)
operator_mul_int(a, k) ==
    IF k = 0 THEN FXP(Zero, a)
    ELSE IF IsPow2(Magnitude(k)) THEN operator_shl(a, FloorLog2(Magnitude(k)))
    ELSE LET lit == Literal(a, k, MulLitType(a, k))
         IN  IF lit.st # "ok" THEN lit ELSE _mul2(a, lit)

\* ------------------------------------------------------------------------
\* The program: a driver that constructs values and applies operators
\* ------------------------------------------------------------------------

\* a, b : the driver's two operand objects (None before their construction)
\* r    : the outcome of the last operation: an object, or Aborted
\* op   : the name of the last operation
\* arg  : the real value and the tuple the last constructor call was given
VARIABLES a, b, r, op, arg

vars == <<a, b, r, op, arg>>

None == [st |-> "none"]

\* largest integer and fractional width of the quantizer's configurations
MaxIntg == 2

MaxFrac == 2

\* the quantizer's inputs are n / 2^(MaxFrac+1) and n / 2 for |n| <= MaxIn
MaxIn == 12

\* widths near the limits of double and of the bounds switch
WideWidths == {<<30, 30>>, <<26, 27>>, <<30, 1>>, <<31, 1>>}

Widths == ((0..MaxIntg) \X (0..MaxFrac)) \cup WideWidths

\* 2^31 and -2^31: beyond the bounds of every configuration of Widths
WideInputs == {Fin(FALSE, {31}), Fin(TRUE, {31})}

Inputs ==
    { Dyadic(n, MaxFrac + 1) : n \in -MaxIn..MaxIn }
    \cup { Dyadic(n, 1) : n \in -MaxIn..MaxIn }
    \cup WideInputs \cup {inf, Neg(inf)}

QModes == {"FULL", "FIXEDWIDTH"}

Configs ==
    { tuple(w[1], w[2], t, m, s, rd) :
        w \in Widths, t \in dtype, m \in QModes, s \in BOOLEAN, rd \in BOOLEAN }

\* what an operation leaves in r: its outcome; where the code's behaviour is
\* undefined, an abort or any object the target configuration can hold (the
\* undefined shift or cast yields some value, which _to_unsigned then reduces
\* into [0, full): an unsigned kind never stores a negative value)
Outcomes(res, c) ==
    IF res.st = "ub"
    THEN {Aborted} \cup
         { Obj(c, x) : x \in IF IsUnsigned(c.type) THEN {Zero, FromInt(1)}
                              ELSE {Zero, FromInt(1), FromInt(-1)} }
    ELSE {res}

Running == r.st # "abort"

Init ==
    /\ a = None
    /\ b = None
    /\ r = None
    /\ op = "init"
    /\ arg = None

\* a = FXP(v, c)
Construct(v, c) ==
    /\ op = "init"
    /\ r' \in Outcomes(FXP(v, c), c)
    /\ a' = IF r'.st = "ok" THEN r' ELSE a
    /\ op' = "construct"
    /\ arg' = [v |-> v, c |-> c]
    /\ UNCHANGED b

\* r = a.copy()
Copy ==
    /\ op = "construct" /\ Running
    /\ r' \in Outcomes(copy(a), _read_template(a))
    /\ op' = "copy"
    /\ arg' = [v |-> val(a), c |-> _read_template(a)]
    /\ UNCHANGED <<a, b>>

\* r = -a
Negate ==
    /\ op = "construct" /\ Running
    /\ r' \in Outcomes(negate(a), _read_template(a))
    /\ op' = "negate"
    /\ arg' = [v |-> Neg(val(a)), c |-> _read_template(a)]
    /\ UNCHANGED <<a, b>>

\* r = abs(a)
Abs ==
    /\ op = "construct" /\ Running
    /\ r' \in Outcomes(abs(a), _read_template(a))
    /\ op' = "abs"
    /\ arg' = [v |-> Fabs(val(a)), c |-> _read_template(a)]
    /\ UNCHANGED <<a, b>>

\* the driver's first statement: a construction from any input and tuple
ConstructAny ==
    /\ op = "init"
    /\ \E v \in Inputs, c \in Configs : Construct(v, c)

Next ==
    \/ ConstructAny
    \/ Copy
    \/ Negate
    \/ Abs

Spec == Init /\ [][Next]_vars

\* ------------------------------------------------------------------------
\* The driver of the binary operators: two operands, then one operator
\* ------------------------------------------------------------------------

\* largest integer and fractional width of the operands
BinMaxIntg == 1

BinMaxFrac == 1

\* the operands' inputs: the grid of the widest operand configuration, and
\* the two infinities
BinInputs ==
    { Dyadic(n, BinMaxFrac) :
        n \in -(2^(BinMaxIntg + BinMaxFrac))..(2^(BinMaxIntg + BinMaxFrac) - 1) }
    \cup {inf, Neg(inf)}

BinConfigs ==
    { tuple(i, f, t, m, s, rd) :
        i \in 0..BinMaxIntg, f \in 0..BinMaxFrac, t \in dtype, m \in modes,
        s \in BOOLEAN, rd \in BOOLEAN }

\* b = FXP(v, c)
ConstructB(v, c) ==
    /\ r' \in Outcomes(FXP(v, c), c)
    /\ b' = IF r'.st = "ok" THEN r' ELSE b
    /\ op' = "constructB"
    /\ arg' = [v |-> v, c |-> c]
    /\ UNCHANGED a

\* the first operand, from any input and tuple
OperandA ==
    /\ op = "init"
    /\ \E v \in BinInputs, c \in BinConfigs : Construct(v, c)

\* the second operand: any input, any widths, a kind that may be combined
\* with a's, and a's policies
OperandB ==
    /\ op = "construct" /\ Running
    /\ \E v \in BinInputs, c \in BinConfigs :
          /\ c.opmode = a.opmode /\ c.sat = a.sat /\ c.rounding = a.rounding
          /\ (c.type = "d_FLOAT") = (a.type = "d_FLOAT")
          /\ ConstructB(v, c)

\* r = a + b
Add ==
    /\ op = "constructB" /\ Running
    /\ arg' = IF Compatible(a, b)
              THEN AddArgs(a, b, a.opmode, a.sat, a.rounding) ELSE None
    /\ r' \in Outcomes(_add2(a, b), arg'.c)
    /\ op' = "add"
    /\ UNCHANGED <<a, b>>

\* r = a - b
Sub ==
    /\ op = "constructB" /\ Running
    /\ arg' = IF Compatible(a, b)
              THEN SubArgs(a, b, a.opmode, a.sat, a.rounding) ELSE None
    /\ r' \in Outcomes(_sub2(a, b), arg'.c)
    /\ op' = "sub"
    /\ UNCHANGED <<a, b>>

\* r = a * b
Mul ==
    /\ op = "constructB" /\ Running
    /\ arg' = IF Compatible(a, b)
              THEN MulArgs(a, b, a.opmode, a.sat, a.rounding) ELSE None
    /\ r' \in Outcomes(_mul2(a, b), arg'.c)
    /\ op' = "mul"
    /\ UNCHANGED <<a, b>>

NextBin ==
    \/ OperandA
    \/ OperandB
    \/ Add
    \/ Sub
    \/ Mul

SpecBin == Init /\ [][NextBin]_vars

\* ------------------------------------------------------------------------
\* The driver of the dispatch checks: operands of any policies
\* ------------------------------------------------------------------------

MixInputs == {Zero, FromInt(1)}

MixConfigs ==
    { tuple(1, 0, t, m, s, rd) :
        t \in dtype, m \in modes, s \in BOOLEAN, rd \in BOOLEAN }

MixOperandA ==
    /\ op = "init"
    /\ \E v \in MixInputs, c \in MixConfigs : Construct(v, c)

MixOperandB ==
    /\ op = "construct" /\ Running
    /\ \E v \in MixInputs, c \in MixConfigs : ConstructB(v, c)

NextMix ==
    \/ MixOperandA
    \/ MixOperandB
    \/ Add
    \/ Sub
    \/ Mul

SpecMix == Init /\ [][NextMix]_vars

\* ------------------------------------------------------------------------
\* The driver of the shifts, the scalar operators, convert, max and min
\* ------------------------------------------------------------------------

\* largest integer and fractional width of the operand
OpsMaxIntg == 1

OpsMaxFrac == 1

\* largest shift count
MaxShift == 2

\* largest magnitude of an integer literal
MaxLit == 3

\* widths at the precision ceiling
OpsWideWidths == {<<0, 61>>, <<59, 2>>}

OpsWidths == ((0..OpsMaxIntg) \X (0..OpsMaxFrac)) \cup OpsWideWidths

OpsInputs ==
    { Dyadic(n, OpsMaxFrac) :
        n \in -(2^(OpsMaxIntg + OpsMaxFrac))..(2^(OpsMaxIntg + OpsMaxFrac) - 1) }
    \cup {inf, Neg(inf)}

OpsConfigs ==
    { tuple(w[1], w[2], t, m, s, rd) :
        w \in OpsWidths, t \in dtype, m \in modes, s \in BOOLEAN,
        rd \in BOOLEAN }

\* the operand, from any input and tuple
OpsOperandA ==
    /\ op = "init"
    /\ \E v \in OpsInputs, c \in OpsConfigs : Construct(v, c)

\* a second operand with the tuple of the first
OpsOperandB ==
    /\ op = "construct" /\ Running
    /\ \E v \in OpsInputs : ConstructB(v, _read_template(a))

\* r = a >> k
ShiftRight(k) ==
    /\ r' \in Outcomes(operator_shr(a, k), ShrArgs(a, k).c)
    /\ op' = "shr"
    /\ arg' = [k |-> k]
    /\ UNCHANGED <<a, b>>

\* r = a << k
ShiftLeft(k) ==
    /\ r' \in Outcomes(operator_shl(a, k), ShlArgs(a, k).c)
    /\ op' = "shl"
    /\ arg' = [k |-> k]
    /\ UNCHANGED <<a, b>>

\* r = a + k
AddInt(k) ==
    /\ r' \in Outcomes(operator_add_int(a, k), _read_template(a))
    /\ op' = "add_int"
    /\ arg' = [k |-> k]
    /\ UNCHANGED <<a, b>>

\* r = a - k
SubInt(k) ==
    /\ r' \in Outcomes(operator_sub_int(a, k), _read_template(a))
    /\ op' = "sub_int"
    /\ arg' = [k |-> k]
    /\ UNCHANGED <<a, b>>

\* r = k - a
IntSub(k) ==
    /\ r' \in Outcomes(operator_int_sub(k, a), _read_template(a))
    /\ op' = "int_sub"
    /\ arg' = [k |-> k]
    /\ UNCHANGED <<a, b>>

\* r = a * k
MulInt(k) ==
    /\ r' \in Outcomes(operator_mul_int(a, k), _read_template(a))
    /\ op' = "mul_int"
    /\ arg' = [k |-> k]
    /\ UNCHANGED <<a, b>>

\* a.convert(c), r the converted object
Convert(c) ==
    /\ r' \in Outcomes(convert(a, c), c)
    /\ op' = "convert"
    /\ arg' = [v |-> val(a), c |-> c]
    /\ UNCHANGED <<a, b>>

\* r = max(a, b)
Max ==
    /\ op = "constructB" /\ Running
    /\ r' \in Outcomes(max(a, b), _read_template(a))
    /\ op' = "max"
    /\ arg' = None
    /\ UNCHANGED <<a, b>>

\* r = min(a, b)
Min ==
    /\ op = "constructB" /\ Running
    /\ r' \in Outcomes(min(a, b), _read_template(a))
    /\ op' = "min"
    /\ arg' = None
    /\ UNCHANGED <<a, b>>

\* the tuples convert is given: the narrowest and the widest of the small
\* widths, in every kind, with the operand's policies
ConvertTargets ==
    { tuple(w[1], w[2], t, a.opmode, a.sat, a.rounding) :
        w \in {<<0, 0>>, <<OpsMaxIntg, OpsMaxFrac>>}, t \in dtype }

Shifts ==
    /\ op = "construct" /\ Running
    /\ \E k \in 0..MaxShift : ShiftRight(k) \/ ShiftLeft(k)

Scalars ==
    /\ op = "construct" /\ Running
    /\ \E k \in -MaxLit..MaxLit :
          AddInt(k) \/ SubInt(k) \/ IntSub(k) \/ MulInt(k)

Converts ==
    /\ op = "construct" /\ Running
    /\ \E c \in ConvertTargets : Convert(c)

NextOps ==
    \/ OpsOperandA
    \/ OpsOperandB
    \/ Copy
    \/ Negate
    \/ Abs
    \/ Shifts
    \/ Scalars
    \/ Converts
    \/ Max
    \/ Min
    \/ Add
    \/ Sub
    \/ Mul

SpecOps == Init /\ [][NextOps]_vars

NoUB == r.st # "ub"

\* ------------------------------------------------------------------------
\* The specification's own quantities, computed exactly
\* ------------------------------------------------------------------------

\* positiveBound = (2^(intg+frac) - 1) / 2^frac
PositiveBound(c) ==
    Fin(FALSE, MagShift(MagSub({c.intg + c.frac}, {0}), -c.frac))

\* negativeBound = -2^(intg+frac) / 2^frac for signed kinds, 0 for unsigned
NegativeBound(c) ==
    IF IsUnsigned(c.type) THEN Zero ELSE Fin(TRUE, {c.intg})

\* a configuration of the data model: no fraction on an integer kind
ValidConfig(c) ==
    /\ c.intg >= 0 /\ c.frac >= 0
    /\ c.intg + c.frac < WidthCeiling
    /\ (IsIntKind(c.type) => c.frac = 0)

\* the last operation was a construction from a real number into a
\* non-Float configuration
RealConstruct ==
    /\ op = "construct"
    /\ IsFin(arg.v)
    /\ arg.c.type # "d_FLOAT"
    /\ ValidConfig(arg.c)

\* C1: a construction from a real v into a saturating non-Float configuration
\* completes and its asReal() lies in [negativeBound, positiveBound].
C1_SaturateWithinBounds ==
    (RealConstruct /\ arg.c.sat) =>
        /\ r.st = "ok"
        /\ Leq(NegativeBound(arg.c), val(r))
        /\ Leq(val(r), PositiveBound(arg.c))

\* the integer part of a magnitude
IntPart(m) == { i \in m : i >= 0 }

\* round half away from zero, of an exact number
RoundHalfAway(x) ==
    Fin(x.neg, IF -1 \in x.m THEN MagAdd(IntPart(x.m), {0}) ELSE IntPart(x.m))

\* floor toward minus infinity, of an exact number
FloorDown(x) ==
    IF x.neg /\ (\E i \in x.m : i < 0)
    THEN Fin(TRUE, MagAdd(IntPart(x.m), {0}))
    ELSE Fin(x.neg, IntPart(x.m))

\* round_or_floor(v * 2^frac)
RoundOrFloor(v, c) ==
    LET x == Fin(v.neg, MagShift(v.m, c.frac))
    IN  IF c.rounding THEN RoundHalfAway(x) ELSE FloorDown(x)

\* representableCount = 2^CountBits
CountBits(c) ==
    IF IsUnsigned(c.type) THEN c.intg + c.frac ELSE c.intg + c.frac + 1

\* x and y are congruent modulo 2^k
Congruent(x, y, k) == \A i \in ExactAdd(x, Neg(y)).m : i >= k

\* the stored integer lies in the range of the configuration
InStoredRange(x, c) ==
    LET top == Fin(FALSE, {c.intg + c.frac})
    IN  /\ Less(x, top)
        /\ IF IsUnsigned(c.type) THEN Leq(Zero, x) ELSE Leq(Neg(top), x)

\* C2: under Wraparound the stored integer of a constructed non-Float value is
\* congruent to round_or_floor(v * 2^frac) modulo representableCount and lies
\* in the range of the configuration.
C2_WrapCongruent ==
    (RealConstruct /\ ~arg.c.sat /\ r.st = "ok") =>
        /\ Congruent(r._val, RoundOrFloor(arg.v, arg.c), CountBits(arg.c))
        /\ InStoredRange(r._val, arg.c)

\* a Wraparound construction that was reduced: the input lay outside the
\* bounds and the stored integer is not the rounded input
C2_Witness ==
    /\ RealConstruct /\ ~arg.c.sat /\ r.st = "ok"
    /\ Less(PositiveBound(arg.c), arg.v)
    /\ r._val # RoundOrFloor(arg.v, arg.c)
    /\ C2_WrapCongruent

\* C3: quantization is idempotent: constructing again from asReal() of a
\* constructed value and its configuration gives the same stored value and
\* the same configuration.
C3_Idempotent == (op = "copy") => (r = a)

\* a requantized value with fractional digits, away from zero
C3_Witness ==
    /\ op = "copy" /\ r = a
    /\ r.type = "d_FXP" /\ r.frac > 0
    /\ (\E i \in val(r).m : i < 0)

\* the value handed to the quantizer lies outside the bounds of a valid
\* target configuration
Overflowing ==
    /\ op \in {"construct", "copy", "negate", "abs", "add", "sub", "mul"}
    /\ arg # None
    /\ IsFin(arg.v)
    /\ arg.c.type # "d_FLOAT"
    /\ ValidConfig(arg.c)
    /\ (Less(PositiveBound(arg.c), arg.v) \/ Less(arg.v, NegativeBound(arg.c)))

\* C4: overflow never aborts: an operation that quantizes a real value
\* outside the bounds of a valid target configuration completes and returns
\* a value.
C4_OverflowNeverAborts == Overflowing => r.st = "ok"

\* the last operation was a binary operator on operands that passed dispatch
BinaryOp == op \in {"add", "sub", "mul"} /\ Compatible(a, b)

NonFloatPair == a.type # "d_FLOAT" /\ b.type # "d_FLOAT"

\* the mathematical result of the last binary operator on the operands' real
\* values
ExactResult ==
    IF op = "add" THEN ExactAdd(val(a), val(b))
    ELSE IF op = "sub" THEN ExactAdd(val(a), Neg(val(b)))
    ELSE ExactMul(val(a), val(b))

\* C5: in Full mode, for compatible non-Float operands whose inferred result
\* width is below 63, a+b, a-b and a*b complete and are exactly the
\* mathematical sum, difference and product.
C5_FullModeExact ==
    (BinaryOp /\ NonFloatPair /\ a.opmode = "FULL"
        /\ arg.c.intg + arg.c.frac < WidthCeiling) =>
        (r.st = "ok" /\ val(r) = ExactResult)

\* C6: addition and multiplication are commutative: a+b and b+a (a*b and
\* b*a) have the same stored value, widths and kind.
C6_Commutative ==
    /\ (op = "add" /\ Compatible(a, b)) => r = _add2(b, a)
    /\ (op = "mul" /\ Compatible(a, b)) => r = _mul2(b, a)

\* a completed sum or product of operands of different kinds and different
\* fractional widths
C6_Witness ==
    /\ op \in {"add", "mul"} /\ Compatible(a, b) /\ r.st = "ok"
    /\ a.type # b.type /\ a.frac # b.frac /\ val(a) # val(b)
    /\ C6_Commutative

\* -(b-a), as the operators compute it
NegatedReverse ==
    LET rev == _sub2(b, a)
    IN  IF rev.st = "ok" THEN negate(rev) ELSE rev

ExactWidth(c) == c.intg + c.frac <= MantBits

PromotedKind(x, y, o) ==
    IF x = "d_FLOAT" /\ y = "d_FLOAT" THEN "d_FLOAT"
    ELSE IF x = "d_UINT" /\ y = "d_UINT"
    THEN (IF o = "sub" THEN "d_INT" ELSE "d_UINT")
    ELSE IF {x, y} = {"d_UINT", "d_INT"} THEN "d_INT"
    ELSE IF {x, y} = {"d_UINT", "d_UFXP"}
    THEN (IF o = "sub" THEN "d_FXP" ELSE "d_UFXP")
    ELSE "d_FXP"

\* C8: the result kind of a binary operator follows the promotion table, in
\* either operand order.
C8_KindPromotion ==
    (BinaryOp /\ r.st = "ok") =>
        /\ r.type = PromotedKind(a.type, b.type, op)
        /\ r.type = PromotedKind(b.type, a.type, op)

\* a completed subtraction of two unsigned integers (the row where Sub
\* differs from Add and Mul)
C8_Witness ==
    /\ op = "sub" /\ Compatible(a, b) /\ r.st = "ok"
    /\ a.type = "d_UINT" /\ b.type = "d_UINT" /\ r.type = "d_INT"

Max2(x, y) == IF x >= y THEN x ELSE y

Min2(x, y) == IF x <= y THEN x ELSE y

\* exactly one operand is of an integer kind and the other of a fixed kind
OneIntOneFixed ==
    \/ IsIntKind(a.type) /\ IsFixKind(b.type)
    \/ IsIntKind(b.type) /\ IsFixKind(a.type)

\* the widths the specification gives the result of the last operator
SpecIntg ==
    IF a.opmode = "FIXEDWIDTH" THEN Max2(a.intg, b.intg)
    ELSE IF op = "mul" THEN a.intg + b.intg
    ELSE Max2(a.intg, b.intg) + 1

SpecFrac ==
    IF a.opmode = "FULL"
    THEN (IF op = "mul" THEN a.frac + b.frac ELSE Max2(a.frac, b.frac))
    ELSE IF OneIntOneFixed
    THEN (IF IsFixKind(a.type) THEN a.frac ELSE b.frac)
    ELSE Min2(a.frac, b.frac)

Mismatched ==
    \/ a.sat # b.sat
    \/ a.rounding # b.rounding
    \/ a.opmode # b.opmode
    \/ (a.type = "d_FLOAT") # (b.type = "d_FLOAT")

\* C10: a binary operator on mismatched operands is rejected at dispatch: it
\* aborts and constructs no result.
C10_DispatchRejects ==
    (op \in {"add", "sub", "mul"} /\ Mismatched) => (r = Aborted /\ arg = None)

\* a rejected product of operands that differ in the overflow policy only
C10_Witness ==
    /\ op = "mul" /\ r = Aborted /\ arg = None
    /\ a.sat # b.sat /\ a.rounding = b.rounding /\ a.opmode = b.opmode
    /\ a.type = b.type

\* the bounds the specification gives a configuration; a Float keeps the
\* infinities
SpecPositive(c) == IF c.type = "d_FLOAT" THEN inf ELSE PositiveBound(c)

SpecNegative(c) == IF c.type = "d_FLOAT" THEN Neg(inf) ELSE NegativeBound(c)

\* the last operation was a construction from an infinity into a valid
\* configuration
InfConstruct ==
    /\ op = "construct"
    /\ arg.v \in {inf, Neg(inf)}
    /\ ValidConfig(arg.c)

\* C11: a construction from +infinity completes with asReal() equal to
\* positiveBound, and one from -infinity with asReal() equal to negativeBound.
C11_InfinityToBound ==
    InfConstruct =>
        /\ r.st = "ok"
        /\ val(r) = (IF arg.v = inf THEN SpecPositive(arg.c)
                     ELSE SpecNegative(arg.c))

\* the data-model invariant of one object
DataModel(x) ==
    x.st = "ok" =>
        /\ x.intg + x.frac < WidthCeiling
        /\ (IsIntKind(x.type) => x.frac = 0)
        /\ (IsUnsigned(x.type) => Leq(Zero, x._val))

\* C12: every value an operation has returned satisfies
\* integerWidth + fractionalWidth < 63, fractionalWidth = 0 when its kind is
\* an integer kind, and storedValue >= 0 when its kind is unsigned.
C12_DataModelInvariant == DataModel(a) /\ DataModel(b) /\ DataModel(r)

\* a scalar addition returned an unsigned value one bit below the ceiling
C12_Witness ==
    /\ op = "add_int" /\ r.st = "ok"
    /\ IsUnsigned(r.type)
    /\ r.intg + r.frac = WidthCeiling - 1
    /\ ~IsZero(r._val)
    /\ C12_DataModelInvariant

\* integerWidth = max(a.intg - k, 0), as the specification gives it
SpecShrIntg(k) == Max2(a.intg - k, 0)

\* C13: shift-right by k >= 0 returns a value of a's kind and policies with
\* integerWidth = max(a.intg - k, 0) and fractionalWidth = a.frac + k, whose
\* asReal() equals a.asReal() / 2^k.
C13_ShiftRight ==
    (op = "shr") =>
        /\ r.st = "ok"
        /\ r.type = a.type /\ r.opmode = a.opmode
        /\ r.sat = a.sat /\ r.rounding = a.rounding
        /\ r.intg = SpecShrIntg(arg.k) /\ r.frac = a.frac + arg.k
        /\ r.intg >= 0 /\ r.frac >= 0
        /\ val(r) = dDivPow2(val(a), Shl1(arg.k))

\* the literal promoted as the specification says: width 1+floor(log2(|k|)),
\* no fraction, the operand's policies, UnsignedInt when k >= 0 and SignedInt
\* when k < 0
PromotedLiteral(k) ==
    FXP(FromInt(k),
        tuple(1 + FloorLog2(Magnitude(k)), 0,
              IF k >= 0 THEN "d_UINT" ELSE "d_INT",
              a.opmode, a.sat, a.rounding))

\* the value-vs-value operator the last scalar operator stands for
ValueVsValue ==
    LET lit == PromotedLiteral(arg.k)
    IN  IF lit.st # "ok" THEN lit
        ELSE IF op = "add_int" THEN _add2(a, lit)
        ELSE IF op = "sub_int" THEN _sub2(a, lit)
        ELSE IF op = "int_sub" THEN _sub2(lit, a)
        ELSE _mul2(a, lit)

\* the last operation was a scalar operator the claim speaks of
ScalarOp ==
    /\ op \in {"add_int", "sub_int", "int_sub", "mul_int"}
    /\ a.type # "d_FLOAT"
    /\ arg.k # 0
    /\ (op = "mul_int" => ~(arg.k > 0 /\ IsPow2(arg.k)))

\* C14: a+k, a-k, k-a and a*k of a non-Float a and a nonzero literal k (for
\* a*k, k not a positive power of two) return the configuration and stored
\* value of the value-vs-value operator on a and the promoted literal.
C14_ScalarEquivalence ==
    (ScalarOp /\ ValueVsValue.st # "ub") => r = ValueVsValue

\* the bounds of the specification's Bounds Calculator, which switches on the
\* combined width
SpecBoundsPositive(c) ==
    IF c.intg + c.frac >= BoundsSwitch
    THEN ExactAdd(Shl1(c.intg), FromInt(-1))
    ELSE PositiveBound(c)

SpecBoundsNegative(c) ==
    IF IsUnsigned(c.type) THEN Zero ELSE Neg(Shl1(c.intg))

\* C15: the bounds of a non-Float configuration are the integer-width-only
\* approximation when integerWidth + fractionalWidth >= 31 and the exact
\* bounds when it is below 31.
C15_BoundsSwitch ==
    (op = "construct" /\ arg.c.type # "d_FLOAT" /\ ValidConfig(arg.c)
        /\ ~_set_bounds(arg.c).ub) =>
        /\ _set_bounds(arg.c).pinf = SpecBoundsPositive(arg.c)
        /\ _set_bounds(arg.c).ninf = SpecBoundsNegative(arg.c)

====
